---- MODULE Spec2Model ----
(***************************************************************************)
(* Model of core/fx_service.py: the rate fetch pipeline                    *)
(*   cache lookup -> network fetch with retry -> fallback -> cache store   *)
(* together with the TTLCache(maxsize, ttl) it keeps in _cache.            *)
(*                                                                         *)
(* Every call of a TTLCache method (__contains__, __getitem__,             *)
(* __setitem__) is one step; the clock (time.monotonic) advances between   *)
(* steps, and calls of fetch_rates made by different tasks or threads      *)
(* interleave between steps.                                               *)
(***************************************************************************)
EXTENDS Integers, Sequences, FiniteSets, TLC

\* ---------------------------------------------------------------- bounds
NumCallers == 2
NumKeys == 3
\* capacity of the modelled cache (the program uses maxsize=256)
maxsize == 2
\* the clock advances in steps of TickStep seconds, up to MaxClock
TickStep == 450
MaxClock == 900

\* a raw rates mapping has at most MaxDays date keys
MaxDays == 3

\* ------------------------------------------------------------- constants
ttl == 900
MaxAttempts == 3
\* round(x * 100, 4): a percent change is kept as a count of 0.0001 %
PctScale == 1000000
\* round(x, 6): rates are counts of 0.01, mean_rate a count of 0.000001
MeanScale == 10000

Callers == 1..NumCallers
\* a range key stands for the string "{start_date}..{end_date}"
Keys == 1..NumKeys

Absent == "absent"
\* the document the provider answers with, and the bundled sample document
LiveDocs == {"live_fx"}
SampleDoc == "sample_fx"
Docs == LiveDocs \cup {SampleDoc}

\* exceptions of one HTTP attempt
\*   Transport            : httpx.TimeoutException, httpx.ConnectError
\*   Status5xx, Status4xx : httpx.HTTPStatusError from raise_for_status()
\*   Malformed            : json.JSONDecodeError from resp.json()
HttpxErrors == {"Transport", "Status5xx", "Status4xx"}
AttemptErrors == HttpxErrors \cup {"Malformed"}
\* exceptions of the fallback loader: open() fails, json.load() fails
FallbackErrors == {"FallbackOSError", "FallbackJSONError"}
KeyErr == "KeyError"
None == "none"

VARIABLES
    clock,      \* time.monotonic(), the timer of the TTLCache
    data,       \* Cache.__data: key -> stored document or Absent
    expires,    \* TTLCache link.expires of each stored key (0 when absent)
    links,      \* TTLCache.__links: the keys in least-recently-used order
    pc,         \* position of each caller inside fetch_rates
    hit,        \* outcome of the test at line 74 in the current call
    key,        \* cache_key of the caller's current call
    netCalls,   \* HTTP attempts made by the current call
    fbCalls,    \* _load_fallback invocations made by the current call
    exc,        \* exception raised by the latest HTTP attempt or fallback load
    caught,     \* exception that left _fetch_from_api, caught at line 83
    doc,        \* the local variable data of fetch_rates
    result,     \* what the call returned (a document) or raised
    \* one call of get_summary, after fetch_rates has returned (line 147)
    sumpc,          \* position inside get_summary
    args,           \* start_date, end_date, breakdown
    sdata,          \* data: the document fetch_rates returned
    raw_rates,      \* raw_rates: the mapping, as its items in key order
    sorted_dates,   \* sorted_dates of _build_day_records
    records,        \* records built so far
    prev_rate,      \* prev_rate: <<>> for None, <<r>> for the rate r
    totals,         \* the Totals of line 151
    response        \* the SummaryResponse returned

statsVars == <<sumpc, args, sdata, raw_rates, sorted_dates, records,
               prev_rate, totals, response>>
fetchVars == <<clock, data, expires, links, pc, hit, key, netCalls, fbCalls,
               exc, caught, doc, result>>

vars == <<fetchVars, statsVars>>

cacheVars == <<data, expires, links>>
callVars == <<netCalls, fbCalls, exc, caught, doc, result>>

\* ------------------------------------------------------------ sequences
RECURSIVE Without(_, _)
Without(s, k) ==
    IF s = <<>> THEN <<>>
    ELSE IF Head(s) = k THEN Without(Tail(s), k)
         ELSE <<Head(s)>> \o Without(Tail(s), k)

RECURSIVE Restrict(_, _)
Restrict(s, keep) ==
    IF s = <<>> THEN <<>>
    ELSE IF Head(s) \in keep THEN <<Head(s)>> \o Restrict(Tail(s), keep)
         ELSE Restrict(Tail(s), keep)

Range(s) == {s[i] : i \in 1..Len(s)}

\* OrderedDict.move_to_end(k), or insertion of a new key at the end
MoveToEnd(s, k) == Without(s, k) \o <<k>>

\* ------------------------------------------------------------- TTLCache
cache_contains_never(d, e, t, k) == FALSE
cache_contains_no_ttl(d, e, t, k) == d[k] # Absent
\* TTLCache.__contains__: the key has a link and timer() < link.expires
cache_contains(d, e, t, k) == d[k] # Absent /\ t < e[k]

\* keys whose entry has expired at time t: not (t < link.expires)
ExpiredKeys(d, e, t) == {k \in Keys : d[k] # Absent /\ ~(t < e[k])}

\* TTLCache.expire(time): drop every expired entry
expire_data(d, e, t) ==
    [k \in Keys |-> IF k \in ExpiredKeys(d, e, t) THEN Absent ELSE d[k]]
expire_expires(d, e, t) ==
    [k \in Keys |-> IF k \in ExpiredKeys(d, e, t) THEN 0 ELSE e[k]]
expire_links(d, e, l, t) == Restrict(l, Keys \ ExpiredKeys(d, e, t))

EntryTtlSampleUncached(v) == IF v = SampleDoc THEN 0 ELSE ttl
\* link.expires = time + ttl: the one ttl of the cache, whatever the value
EntryTtl(v) == ttl

popitem_victim_mru(l) == l[Len(l)]
\* TTLCache.popitem(): remove the least recently used entry
popitem_victim(l) == Head(l)

NeedsEvictionOffByOne(d, l, k) == d[k] = Absent /\ Len(l) + 1 >= maxsize
\* Cache.__setitem__ evicts while the cache is full and the key is new
NeedsEviction(d, l, k) == d[k] = Absent /\ Len(l) + 1 > maxsize

\* TTLCache.__setitem__(k, v) at time t, as three functions of the old cache
\*   1. expire(t)   2. evict the LRU entry while full   3. store, relink
setitem_links(d, e, l, t, k) ==
    LET l1 == expire_links(d, e, l, t)
        d1 == expire_data(d, e, t)
        l2 == IF NeedsEviction(d1, l1, k)
              THEN Without(l1, popitem_victim(l1)) ELSE l1
    IN  MoveToEnd(l2, k)

setitem_data_keep_existing(d, e, l, t, k, v) ==
    LET kept == Range(setitem_links(d, e, l, t, k))
    IN  [j \in Keys |-> IF j = k THEN (IF d[k] # Absent THEN d[k] ELSE v)
                        ELSE IF j \in kept THEN d[j] ELSE Absent]

setitem_data(d, e, l, t, k, v) ==
    LET kept == Range(setitem_links(d, e, l, t, k))
    IN  [j \in Keys |-> IF j = k THEN v
                        ELSE IF j \in kept THEN d[j] ELSE Absent]

setitem_expires(d, e, l, t, k, v) ==
    LET kept == Range(setitem_links(d, e, l, t, k))
    IN  [j \in Keys |-> IF j = k THEN t + EntryTtl(v)
                        ELSE IF j \in kept THEN e[j] ELSE 0]

\* ------------------------------------------------------- network fetcher
\* retry_if_exception_type((httpx.HTTPError, httpx.TimeoutException))
IsRetried(e) == e \in HttpxErrors

StopRetryingOffByOne(n) == n > MaxAttempts
\* stop_after_attempt(3): no retry once n attempts have been made
StopRetrying(n) == n >= MaxAttempts

\* reraise=True: what _fetch_from_api raises once an attempt has failed
\* with e and no retry follows
Reraised(e) == e

IsCaughtValueErrorOnly(e) == e = "Malformed"
\* line 83, except Exception: every exception of the fetcher is caught
IsCaught(e) == TRUE

FallbackWrapped(e) == "RuntimeError"
\* lines 58-62, line 85: nothing catches or wraps what _load_fallback raises
FallbackRaised(e) == e

\* line 147: get_summary awaits fetch_rates outside any try block, so an
\* exception of fetch_rates is the exception of get_summary
get_summary_raises(r) == IF r \in Docs THEN None ELSE r

\* ----------------------------------------------------------------- Init
FetchInit ==
    /\ clock = 0
    /\ data = [k \in Keys |-> Absent]
    /\ expires = [k \in Keys |-> 0]
    /\ links = <<>>
    /\ pc = [p \in Callers |-> "idle"]
    /\ hit = [p \in Callers |-> FALSE]
    /\ key = [p \in Callers |-> 1]
    /\ netCalls = [p \in Callers |-> 0]
    /\ fbCalls = [p \in Callers |-> 0]
    /\ exc = [p \in Callers |-> None]
    /\ caught = [p \in Callers |-> None]
    /\ doc = [p \in Callers |-> None]
    /\ result = [p \in Callers |-> None]

\* no call of get_summary is being followed past line 147
StatsIdle ==
    /\ sumpc = "off"
    /\ args = None
    /\ sdata = None
    /\ raw_rates = <<>>
    /\ sorted_dates = <<>>
    /\ records = <<>>
    /\ prev_rate = <<>>
    /\ totals = None
    /\ response = None

Init == FetchInit /\ StatsIdle

\* -------------------------------------------------------------- actions
\* fetch_rates(start_date, end_date) is entered: cache_key is computed
Call(p, k) ==
    /\ pc[p] \in {"idle", "done"}
    /\ pc' = [pc EXCEPT ![p] = "lookup"]
    /\ hit' = [hit EXCEPT ![p] = FALSE]
    /\ key' = [key EXCEPT ![p] = k]
    /\ netCalls' = [netCalls EXCEPT ![p] = 0]
    /\ fbCalls' = [fbCalls EXCEPT ![p] = 0]
    /\ exc' = [exc EXCEPT ![p] = None]
    /\ caught' = [caught EXCEPT ![p] = None]
    /\ doc' = [doc EXCEPT ![p] = None]
    /\ result' = [result EXCEPT ![p] = None]
    /\ UNCHANGED <<clock, cacheVars>>
    /\ UNCHANGED statsVars

CacheCheckFetchAnyway(p) ==
    /\ pc[p] = "lookup"
    /\ hit' = [hit EXCEPT ![p] = cache_contains(data, expires, clock, key[p])]
    /\ pc' = [pc EXCEPT ![p] = "fetch"]
    /\ UNCHANGED <<clock, cacheVars, key, callVars>>
    /\ UNCHANGED statsVars

\* line 74: if cache_key in _cache
CacheCheck(p) ==
    /\ pc[p] = "lookup"
    /\ hit' = [hit EXCEPT ![p] = cache_contains(data, expires, clock, key[p])]
    /\ pc' = [pc EXCEPT ![p] = IF hit'[p] THEN "hit" ELSE "fetch"]
    /\ UNCHANGED <<clock, cacheVars, key, callVars>>
    /\ UNCHANGED statsVars

CacheReadSliding(p) ==
    /\ pc[p] = "hit"
    /\ links' = IF data[key[p]] # Absent THEN MoveToEnd(links, key[p])
                ELSE links
    /\ expires' = IF cache_contains(data, expires, clock, key[p])
                  THEN [expires EXCEPT ![key[p]] = clock + ttl]
                  ELSE expires
    /\ result' = [result EXCEPT ![p] =
                    IF cache_contains(data, expires, clock, key[p])
                    THEN data[key[p]] ELSE KeyErr]
    /\ pc' = [pc EXCEPT ![p] = "done"]
    /\ UNCHANGED <<clock, data, hit, key, netCalls, fbCalls, exc, caught, doc>>
    /\ UNCHANGED statsVars

\* line 76: return _cache[cache_key]
\* TTLCache.__getitem__ moves the link to the end of the LRU order, then
\* raises KeyError when the key is missing or the entry has expired
CacheRead(p) ==
    /\ pc[p] = "hit"
    /\ links' = IF data[key[p]] # Absent THEN MoveToEnd(links, key[p])
                ELSE links
    /\ result' = [result EXCEPT ![p] =
                    IF cache_contains(data, expires, clock, key[p])
                    THEN data[key[p]] ELSE KeyErr]
    /\ pc' = [pc EXCEPT ![p] = "done"]
    /\ UNCHANGED <<clock, data, expires, hit, key, netCalls, fbCalls, exc,
                   caught, doc>>
    /\ UNCHANGED statsVars

\* lines 45-50, one attempt that succeeds: the call returns resp.json()
AttemptOk(p, d) ==
    /\ pc[p] = "fetch"
    /\ netCalls' = [netCalls EXCEPT ![p] = @ + 1]
    /\ exc' = [exc EXCEPT ![p] = None]
    /\ doc' = [doc EXCEPT ![p] = d]
    /\ pc' = [pc EXCEPT ![p] = "store"]
    /\ UNCHANGED <<clock, cacheVars, hit, key, fbCalls, caught, result>>
    /\ UNCHANGED statsVars

\* lines 39-50, one attempt that raises e: tenacity retries it when e is of
\* a retried type and fewer than 3 attempts were made; otherwise the
\* exception leaves _fetch_from_api and is caught at line 83
AttemptFail(p, e) ==
    /\ pc[p] = "fetch"
    /\ netCalls' = [netCalls EXCEPT ![p] = @ + 1]
    /\ exc' = [exc EXCEPT ![p] = e]
    /\ IF IsRetried(e) /\ ~StopRetrying(netCalls[p] + 1)
       THEN /\ pc' = [pc EXCEPT ![p] = "fetch"]
            /\ UNCHANGED <<caught, result>>
       ELSE IF IsCaught(Reraised(e))
       THEN /\ pc' = [pc EXCEPT ![p] = "fallback"]
            /\ caught' = [caught EXCEPT ![p] = Reraised(e)]
            /\ UNCHANGED result
       ELSE /\ pc' = [pc EXCEPT ![p] = "done"]
            /\ result' = [result EXCEPT ![p] = Reraised(e)]
            /\ UNCHANGED caught
    /\ UNCHANGED <<clock, cacheVars, hit, key, fbCalls, doc>>
    /\ UNCHANGED statsVars

\* line 85, lines 58-62: the sample file is read and parsed
FallbackOk(p) ==
    /\ pc[p] = "fallback"
    /\ fbCalls' = [fbCalls EXCEPT ![p] = @ + 1]
    /\ doc' = [doc EXCEPT ![p] = SampleDoc]
    /\ exc' = [exc EXCEPT ![p] = None]
    /\ caught' = [caught EXCEPT ![p] = None]
    /\ pc' = [pc EXCEPT ![p] = "store"]
    /\ UNCHANGED <<clock, cacheVars, hit, key, netCalls, result>>
    /\ UNCHANGED statsVars

FallbackFailStoresNone(p, e) ==
    /\ pc[p] = "fallback"
    /\ fbCalls' = [fbCalls EXCEPT ![p] = @ + 1]
    /\ result' = [result EXCEPT ![p] = FallbackRaised(e)]
    /\ exc' = [exc EXCEPT ![p] = e]
    /\ caught' = [caught EXCEPT ![p] = None]
    /\ pc' = [pc EXCEPT ![p] = "done"]
    /\ data' = setitem_data(data, expires, links, clock, key[p], None)
    /\ expires' = setitem_expires(data, expires, links, clock, key[p], None)
    /\ links' = setitem_links(data, expires, links, clock, key[p])
    /\ UNCHANGED <<clock, hit, key, netCalls, doc>>
    /\ UNCHANGED statsVars

\* line 85, lines 58-62: open() or json.load() raises; nothing catches it
FallbackFail(p, e) ==
    /\ pc[p] = "fallback"
    /\ fbCalls' = [fbCalls EXCEPT ![p] = @ + 1]
    /\ result' = [result EXCEPT ![p] = FallbackRaised(e)]
    /\ exc' = [exc EXCEPT ![p] = e]
    /\ caught' = [caught EXCEPT ![p] = None]
    /\ pc' = [pc EXCEPT ![p] = "done"]
    /\ UNCHANGED <<clock, cacheVars, hit, key, netCalls, doc>>
    /\ UNCHANGED statsVars

\* lines 87-88: _cache[cache_key] = data; return data
Store(p) ==
    /\ pc[p] = "store"
    /\ data' = setitem_data(data, expires, links, clock, key[p], doc[p])
    /\ expires' = setitem_expires(data, expires, links, clock, key[p], doc[p])
    /\ links' = setitem_links(data, expires, links, clock, key[p])
    /\ result' = [result EXCEPT ![p] = doc[p]]
    /\ pc' = [pc EXCEPT ![p] = "done"]
    /\ UNCHANGED <<clock, hit, key, netCalls, fbCalls, exc, caught, doc>>
    /\ UNCHANGED statsVars

\* time.monotonic() advances
Tick ==
    /\ clock + TickStep <= MaxClock
    /\ clock' = clock + TickStep
    /\ UNCHANGED <<cacheVars, pc, hit, key, callVars>>
    /\ UNCHANGED statsVars



Next ==
    \/ \E p \in Callers, k \in Keys : Call(p, k)
    \/ \E p \in Callers : CacheCheck(p)
    \/ \E p \in Callers : CacheRead(p)
    \/ \E p \in Callers, d \in LiveDocs : AttemptOk(p, d)
    \/ \E p \in Callers, e \in AttemptErrors : AttemptFail(p, e)
    \/ \E p \in Callers : FallbackOk(p)
    \/ \E p \in Callers, e \in FallbackErrors : FallbackFail(p, e)
    \/ \E p \in Callers : Store(p)
    \/ Tick

Spec == Init /\ [][Next]_vars

\* ======================================================================
\* Statistics builder and summary assembler: get_summary from line 148 on.
\* Numbers are exact: a rate is an integer count of 0.01, a percent change
\* an integer count of 0.0001 %, mean_rate an integer count of 0.000001;
\* the binary rounding error of Python floats is not modelled.
\* An Optional value is <<>> for None and <<x>> for x.
\* ======================================================================

\* date keys: strings, as sequences of character codes of mixed length
DateStrs == {<<1>>, <<1, 2>>, <<2>>, <<2, 1>>}
\* rate values of the target currency: 0.00, 1.03, 1.05, 10.00
Rates == {0, 103, 105, 1000}
\* the currency map of one date: USD only, or another currency only
CurMaps == {[c \in {"USD"} |-> r] : r \in Rates}
             \cup {[c \in {"GBP"} |-> 86]}

\* a mapping date -> currency map, as its items in key (insertion) order
RateItems ==
    {s \in UNION {[1..n -> DateStrs \X CurMaps] : n \in 0..MaxDays} :
        \A i \in 1..Len(s), j \in 1..Len(s) : i # j => s[i][1] # s[j][1]}

\* documents fetch_rates may return: with a "rates" field, or without one
FetchedDocs == {[rates |-> s] : s \in RateItems} \cup {[amount |-> 1]}

\* arguments of get_summary
ArgChoices ==
    [start_date : {"2025-01-02"},
     end_date : {"2025-01-03", "2025-01-10"},
     breakdown : {"day", "none"}]

\* str.__lt__: lexicographic order of strings
RECURSIVE StrLess(_, _)
StrLess(a, b) ==
    IF b = <<>> THEN FALSE
    ELSE IF a = <<>> THEN TRUE
    ELSE IF Head(a) < Head(b) THEN TRUE
    ELSE IF Head(a) > Head(b) THEN FALSE
    ELSE StrLess(Tail(a), Tail(b))

RECURSIVE InsertSorted(_, _)
InsertSorted(s, x) ==
    IF s = <<>> THEN <<x>>
    ELSE IF StrLess(x, Head(s)) THEN <<x>> \o s
    ELSE <<Head(s)>> \o InsertSorted(Tail(s), x)

sorted_unsorted(s) == s
\* line 105: sorted(rates.keys())
RECURSIVE sorted(_)
sorted(s) ==
    IF s = <<>> THEN <<>>
    ELSE InsertSorted(sorted(Tail(s)), Head(s))

\* rates.keys(), rates[date_str]
dict_keys(items) == [i \in 1..Len(items) |-> items[i][1]]
dict_getitem(items, k) ==
    items[CHOOSE i \in 1..Len(items) : items[i][1] = k][2]

\* line 148: data.get("rates", {})
get_rates(d) == IF "rates" \in DOMAIN d THEN d.rates ELSE <<>>

usd_rate_default_one(m) == IF "USD" \in DOMAIN m THEN m["USD"] ELSE 100
\* line 110: rates[date_str].get("USD", 0.0)
usd_rate(m) == IF "USD" \in DOMAIN m THEN m["USD"] ELSE 0

\* round(n / d) to the nearest integer, ties to the even one
RoundHalfEven(n, d) ==
    LET nn == IF d < 0 THEN 0 - n ELSE n
        dd == IF d < 0 THEN 0 - d ELSE d
        q == nn \div dd
        r == nn - q * dd
    IN  IF 2 * r < dd THEN q
        ELSE IF 2 * r > dd THEN q + 1
        ELSE IF q % 2 = 0 THEN q ELSE q + 1

safe_pct_change_hundred_from_zero(current, previous) ==
    IF previous = 0 THEN (IF current = 0 THEN 0 ELSE PctScale)
    ELSE RoundHalfEven((current - previous) * PctScale, previous)
\* lines 96-100
safe_pct_change(current, previous) ==
    IF previous = 0 THEN 0
    ELSE RoundHalfEven((current - previous) * PctScale, previous)

RECURSIVE SumRates(_)
SumRates(recs) ==
    IF recs = <<>> THEN 0 ELSE Head(recs).rate + SumRates(Tail(recs))

build_totals_swapped(recs) ==
    IF recs = <<>>
    THEN [start_rate |-> 0, end_rate |-> 0, total_pct_change |-> 0,
          mean_rate |-> 0]
    ELSE [start_rate |-> recs[1].rate,
          end_rate |-> recs[Len(recs)].rate,
          total_pct_change |->
              safe_pct_change(recs[1].rate, recs[Len(recs)].rate),
          mean_rate |-> RoundHalfEven(SumRates(recs) * MeanScale, Len(recs))]
\* lines 118-133
build_totals(recs) ==
    IF recs = <<>>
    THEN [start_rate |-> 0, end_rate |-> 0, total_pct_change |-> 0,
          mean_rate |-> 0]
    ELSE [start_rate |-> recs[1].rate,
          end_rate |-> recs[Len(recs)].rate,
          total_pct_change |->
              safe_pct_change(recs[Len(recs)].rate, recs[1].rate),
          mean_rate |-> RoundHalfEven(SumRates(recs) * MeanScale, Len(recs))]

response_days_always(breakdown, recs) == <<recs>>
\* line 157: records if breakdown == BreakdownChoice.day else None
response_days(breakdown, recs) ==
    IF breakdown = "day" THEN <<recs>> ELSE <<>>

\* fetch_rates has returned sdata to get_summary (line 147)
StatsInit ==
    /\ FetchInit
    /\ sumpc = "fetched"
    /\ args \in ArgChoices
    /\ sdata \in FetchedDocs
    /\ raw_rates = <<>>
    /\ sorted_dates = <<>>
    /\ records = <<>>
    /\ prev_rate = <<>>
    /\ totals = None
    /\ response = None

\* line 148
ExtractRates ==
    /\ sumpc = "fetched"
    /\ raw_rates' = get_rates(sdata)
    /\ sumpc' = "build"
    /\ UNCHANGED <<args, sdata, sorted_dates, records, prev_rate, totals,
                   response>>
    /\ UNCHANGED fetchVars

\* lines 105-107
SortDates ==
    /\ sumpc = "build"
    /\ sorted_dates' = sorted(dict_keys(raw_rates))
    /\ records' = <<>>
    /\ prev_rate' = <<>>
    /\ sumpc' = "loop"
    /\ UNCHANGED <<args, sdata, raw_rates, totals, response>>
    /\ UNCHANGED fetchVars

\* lines 109-113: one iteration of the loop
LoopStep ==
    /\ sumpc = "loop"
    /\ Len(records) < Len(sorted_dates)
    /\ LET date_str == sorted_dates[Len(records) + 1]
           rate == usd_rate(dict_getitem(raw_rates, date_str))
           pct == IF prev_rate = <<>> THEN <<>>
                  ELSE <<safe_pct_change(rate, prev_rate[1])>>
       IN  /\ records' = Append(records,
                  [date |-> date_str, rate |-> rate, pct_change |-> pct])
           /\ prev_rate' = <<rate>>
    /\ UNCHANGED <<sumpc, args, sdata, raw_rates, sorted_dates, totals,
                   response>>
    /\ UNCHANGED fetchVars

\* lines 115 and 151: the loop is over, the totals are built
BuildTotals ==
    /\ sumpc = "loop"
    /\ Len(records) = Len(sorted_dates)
    /\ totals' = build_totals(records)
    /\ sumpc' = "assemble"
    /\ UNCHANGED <<args, sdata, raw_rates, sorted_dates, records, prev_rate,
                   response>>
    /\ UNCHANGED fetchVars

\* lines 153-159, with the defaults of SummaryResponse
Assemble ==
    /\ sumpc = "assemble"
    /\ response' = [base |-> "EUR", target |-> "USD",
                    start_date |-> args.start_date,
                    end_date |-> args.end_date,
                    breakdown |-> args.breakdown,
                    days |-> response_days(args.breakdown, records),
                    totals |-> totals]
    /\ sumpc' = "returned"
    /\ UNCHANGED <<args, sdata, raw_rates, sorted_dates, records, prev_rate,
                   totals>>
    /\ UNCHANGED fetchVars

StatsNext ==
    \/ ExtractRates
    \/ SortDates
    \/ LoopStep
    \/ BuildTotals
    \/ Assemble

SpecStats == StatsInit /\ [][StatsNext]_vars

\* ============================================================== claims
\* the entry of key k can satisfy a lookup now
Live(k) == data[k] # Absent /\ clock < expires[k]
\* the entry of key k is stored but its TTL has elapsed
Elapsed(k) == data[k] # Absent /\ clock >= expires[k]
\* caller p moves from position a to position b in this step
Moves(p, a, b) == pc[p] = a /\ pc'[p] = b
\* no caller but p has ever called fetch_rates
Alone(p) == \A q \in Callers \ {p} : pc[q] = "idle"

\* C1: cache hit skips network. A lookup that finds a live entry takes the
\* hit path; the read of a live entry returns the stored document, which is
\* the document the storing call returned, and the whole call has made no
\* network attempt and no fallback load.
ThmC1 ==
    [][\A p \in Callers :
        /\ (pc[p] = "lookup" /\ pc'[p] # "lookup" /\ Live(key[p]))
              => (pc'[p] = "hit" /\ netCalls'[p] = 0 /\ fbCalls'[p] = 0)
        /\ (Moves(p, "hit", "done") /\ Live(key[p]))
              => /\ result'[p] = data[key[p]]
                 /\ netCalls'[p] = 0 /\ fbCalls'[p] = 0
        /\ Moves(p, "store", "done") => data'[key[p]] = result'[p]
      ]_vars

WitC1 ==
    \E p \in Callers, q \in Callers :
        /\ p # q /\ key[p] = key[q]
        /\ pc[q] = "done" /\ ~hit[q] /\ result[q] \in Docs
        /\ pc[p] = "done" /\ hit[p] /\ result[p] = result[q]
        /\ netCalls[p] = 0 /\ fbCalls[p] = 0

\* C2: TTL expiry. A lookup of a key whose entry is stored but whose TTL
\* has elapsed is a miss: the call goes on to the network fetcher and
\* leaves it only after at least one HTTP attempt, never with the stored
\* document as its result.
ThmC2 ==
    [][\A p \in Callers :
        /\ (pc[p] = "lookup" /\ pc'[p] # "lookup" /\ Elapsed(key[p]))
              => (pc'[p] = "fetch" /\ result'[p] = None)
        /\ (pc[p] = "fetch" /\ pc'[p] # "fetch")
              => (netCalls'[p] >= 1 /\ result'[p] \notin Docs)
      ]_vars

WitC2 ==
    \E p \in Callers :
        /\ Alone(p)
        /\ pc[p] = "fetch" /\ netCalls[p] >= 1
        /\ Elapsed(key[p])

\* how a call may end: never with an exception of the network fetcher;
\* with the sample document or the loader's error once the fallback loader
\* was used; with a live document after a miss that did not use it
InvC3 ==
    \A p \in Callers :
        /\ result[p] \notin AttemptErrors \cup {"RetryError"}
        /\ pc[p] = "fallback" => (netCalls[p] >= 1 /\ fbCalls[p] = 0)
        /\ (pc[p] = "done" /\ fbCalls[p] = 1)
              => result[p] \in {SampleDoc} \cup FallbackErrors
        /\ (pc[p] = "done" /\ ~hit[p] /\ fbCalls[p] = 0)
              => result[p] \in LiveDocs

\* C3: fallback on exhaustion. When the third attempt of a call fails the
\* call goes to the fallback loader; a call that used the fallback loader
\* returns the sample document (or fails with the loader's error); no
\* call ever ends with an exception of the network fetcher.
ThmC3 ==
    /\ []InvC3
    /\ [][\A p \in Callers :
            (/\ pc[p] = "fetch" /\ netCalls[p] = MaxAttempts - 1
             /\ netCalls'[p] = MaxAttempts /\ pc'[p] # "store")
              => pc'[p] = "fallback"
          ]_vars

WitC3 ==
    \E p \in Callers :
        /\ pc[p] = "done" /\ netCalls[p] = MaxAttempts /\ fbCalls[p] = 1
        /\ result[p] = SampleDoc

\* C4: fallback data is cached like live data. The store of the sample
\* document writes it under the key with the full TTL; while that entry is
\* live a lookup of the key is a hit and the read returns the sample
\* document without any network attempt.
ThmC4 ==
    [][\A p \in Callers :
        /\ (Moves(p, "store", "done") /\ doc[p] = SampleDoc)
              => /\ data'[key[p]] = SampleDoc
                 /\ expires'[key[p]] = clock + ttl
        /\ (/\ pc[p] = "lookup" /\ pc'[p] # "lookup"
            /\ Live(key[p]) /\ data[key[p]] = SampleDoc)
              => pc'[p] = "hit"
        /\ (/\ Moves(p, "hit", "done")
            /\ Live(key[p]) /\ data[key[p]] = SampleDoc)
              => (result'[p] = SampleDoc /\ netCalls'[p] = 0)
      ]_vars

WitC4 ==
    \E p \in Callers :
        /\ Alone(p)
        /\ pc[p] = "done" /\ hit[p] /\ netCalls[p] = 0
        /\ result[p] = SampleDoc

\* C5: a fallback loader failure is fatal and visible. When the fallback
\* loader raises, fetch_rates ends with that very exception, get_summary
\* ends with it too, and no document is returned.
ThmC5 ==
    \A p \in Callers :
        (pc[p] = "done" /\ fbCalls[p] = 1 /\ exc[p] # None)
          => /\ result[p] = exc[p]
             /\ result[p] \in FallbackErrors
             /\ get_summary_raises(result[p]) = exc[p]

WitC5 ==
    \E p \in Callers :
        /\ pc[p] = "done" /\ fbCalls[p] = 1 /\ netCalls[p] >= 1
        /\ result[p] \in FallbackErrors

\* the transient failures: timeouts, connection failures, 5xx responses;
\* a malformed body and a 4xx status are the fatal ones
TransientErrors == {"Transport", "Status5xx"}

\* C6: the network fetcher retries only transient failures. A call is
\* about to make a further attempt only when its latest attempt failed
\* with a transient error, never after a malformed body or a 4xx status.
CexC6 ==
    \A p \in Callers :
        (pc[p] = "fetch" /\ netCalls[p] >= 1) => exc[p] \in TransientErrors

\* C7: bounded retry. A call makes at most 3 HTTP attempts; it is still
\* fetching only while no attempt has succeeded, and the document of the
\* successful attempt is the fetcher's result; the exception that leaves
\* the fetcher is the exception of its last attempt, not a wrapper.
ThmC7 ==
    \A p \in Callers :
        /\ netCalls[p] <= MaxAttempts
        /\ pc[p] = "fetch" => (netCalls[p] < MaxAttempts /\ doc[p] = None)
        /\ (pc[p] = "store" /\ fbCalls[p] = 0)
              => (doc[p] \in LiveDocs /\ netCalls[p] >= 1)
        /\ pc[p] = "fallback"
              => (caught[p] = exc[p] /\ exc[p] \in AttemptErrors)

WitC7 ==
    \E p \in Callers :
        /\ pc[p] = "fallback" /\ netCalls[p] = MaxAttempts
        /\ caught[p] \in HttpxErrors /\ caught[p] = exc[p]

\* C8: no request coalescing, last write wins. A call that missed leaves
\* the fetcher only through an attempt of its own; its store writes its own
\* document under the key whatever entry another call has put there; and
\* the cached document of a key changes only by such a store, so it is
\* always the document of the latest write.
ThmC8 ==
    [][/\ \A p \in Callers :
            /\ (pc[p] = "fetch" /\ pc'[p] # "fetch")
                  => netCalls'[p] = netCalls[p] + 1
            /\ Moves(p, "store", "done")
                  => /\ data'[key[p]] = doc[p]
                     /\ result'[p] = doc[p]
                     /\ expires'[key[p]] = clock + ttl
       /\ \A k \in Keys :
            (data'[k] # data[k] /\ data'[k] # Absent)
              => \E p \in Callers :
                    /\ Moves(p, "store", "done") /\ key[p] = k
                    /\ data'[k] = doc[p]
      ]_vars

\* both calls missed before either stored (nothing expired at time 0 and
\* nothing was evicted from a cache that never held a second key), both
\* fetched, and the cache holds the document of one of them
WitC8 ==
    \E p \in Callers, q \in Callers :
        /\ p # q /\ key[p] = key[q]
        /\ clock = 0 /\ links = <<key[p]>>
        /\ pc[p] = "done" /\ ~hit[p] /\ netCalls[p] >= 1
        /\ pc[q] = "done" /\ ~hit[q] /\ netCalls[q] >= 1
        /\ result[p] \in LiveDocs /\ result[q] = SampleDoc
        /\ data[key[p]] = SampleDoc

\* C9: the cache is safe under concurrent access. A call whose test at
\* line 74 succeeded returns a document; it never fails at line 76.
CexC9 ==
    \A p \in Callers :
        (pc[p] = "done" /\ hit[p]) => result[p] \in Docs

\* the keys the cache holds an entry for, expired or not
StoredKeys == {k \in Keys : data[k] # Absent}

\* C10: bounded capacity. The cache never holds more than maxsize
\* entries; a store leaves its key present; it removes exactly the expired
\* entries when there are any; otherwise, when the key is new and the
\* cache is full, exactly the least recently used entry; otherwise nothing.
ThmC10 ==
    /\ [](Cardinality(StoredKeys) <= maxsize /\ Len(links) <= maxsize)
    /\ [][\A p \in Callers :
            Moves(p, "store", "done") =>
              LET k == key[p]
                  gone == {j \in StoredKeys \ {k} : data'[j] = Absent}
                  old == {j \in StoredKeys : clock >= expires[j]}
                  full == k \notin StoredKeys
                          /\ Cardinality(StoredKeys) >= maxsize
              IN  /\ data'[k] # Absent
                  /\ gone = IF old # {} THEN old \ {k}
                            ELSE IF full THEN {links[1]} ELSE {}
          ]_vars

\* at time 0 nothing has expired: the entry a completed call stored is gone
\* from the full cache because a later store evicted it
WitC10 ==
    \E q \in Callers :
        /\ clock = 0 /\ Len(links) = maxsize
        /\ pc[q] = "done" /\ ~hit[q] /\ result[q] \in Docs
        /\ data[key[q]] = Absent

\* C11: only total failure is caller-visible. A finished call either
\* gave get_summary a document, from which it builds a response, or it
\* failed, and then because the fallback loader failed.
CexC11 ==
    \A p \in Callers :
        pc[p] = "done"
          => \/ (result[p] \in Docs /\ get_summary_raises(result[p]) = None)
             \/ (fbCalls[p] = 1 /\ result[p] \in FallbackErrors)

\* caller p takes a step of its current fetch_rates call
StepOf(p) ==
    /\ pc[p] \in {"lookup", "hit", "fetch", "fallback", "store"}
    /\ (pc'[p] # pc[p] \/ netCalls'[p] # netCalls[p])

\* the order of the steps inside one call, as far as a state shows it
InvC17 ==
    \A p \in Callers :
        /\ pc[p] = "lookup"
              => (netCalls[p] = 0 /\ fbCalls[p] = 0 /\ doc[p] = None)
        /\ netCalls[p] >= 1 => (~hit[p] /\ pc[p] \notin {"lookup", "hit"})
        /\ fbCalls[p] <= 1
        /\ fbCalls[p] = 1
              => /\ netCalls[p] >= 1 /\ pc[p] \in {"store", "done"}
                 /\ doc[p] \notin LiveDocs /\ result[p] \notin LiveDocs
        /\ doc[p] \in LiveDocs => fbCalls[p] = 0

\* C17: pipeline ordering. Inside one call: no network attempt before the
\* lookup has missed; the fallback loader runs at most once, only from the
\* except clause after the fetcher has failed in this call, never after a
\* successful attempt; the cache is written only by a call that holds the
\* document it obtained from the network or the fallback.
ThmC17 ==
    /\ []InvC17
    /\ [][\A p \in Callers :
            /\ netCalls'[p] > netCalls[p] => (pc[p] = "fetch" /\ ~hit[p])
            /\ fbCalls'[p] > fbCalls[p]
                  => /\ pc[p] = "fallback" /\ fbCalls[p] = 0
                     /\ netCalls[p] >= 1 /\ caught[p] \in AttemptErrors
            /\ (StepOf(p) /\ data' # data)
                  => /\ pc[p] = "store" /\ doc[p] \in Docs
                     /\ netCalls[p] >= 1
          ]_vars

WitC17 ==
    \E p \in Callers :
        /\ pc[p] = "done" /\ ~hit[p]
        /\ netCalls[p] = MaxAttempts /\ fbCalls[p] = 1
        /\ data[key[p]] = SampleDoc /\ expires[key[p]] = clock + ttl

\* C18 as stated: below capacity, a step of a call leaves the stored
\* document and the expiry time of every other key unchanged.
CexC18 ==
    [][Cardinality({k \in Keys : data[k] # Absent}) < maxsize =>
        \A p \in Callers :
            StepOf(p) =>
                \A k \in Keys \ {key[p]} :
                    data'[k] = data[k] /\ expires'[k] = expires[k]
      ]_vars

\* C18, amended: independence of ranges. Below capacity, a step of a call
\* leaves the entry of every other key unchanged as long as that entry has
\* not expired; the only change it makes to another key is to drop an
\* entry whose TTL has already elapsed.
ThmC18 ==
    [][Cardinality({k \in Keys : data[k] # Absent}) < maxsize =>
        \A p \in Callers :
            StepOf(p) =>
                \A k \in Keys \ {key[p]} :
                    /\ Live(k)
                          => (data'[k] = data[k] /\ expires'[k] = expires[k])
                    /\ (data'[k] # data[k] \/ expires'[k] # expires[k])
                          => (Elapsed(k) /\ data'[k] = Absent)
      ]_vars

\* a call has just stored its key; another key, stored earlier by another
\* call, is still there with its own document and expiry
WitC18 ==
    \E p \in Callers, q \in Callers :
        /\ p # q /\ key[p] # key[q]
        /\ pc[p] = "done" /\ ~hit[p] /\ result[p] = SampleDoc
        /\ pc[q] = "done" /\ ~hit[q] /\ result[q] \in LiveDocs
        /\ links = <<key[q], key[p]>>
        /\ data[key[q]] = result[q] /\ data[key[p]] = SampleDoc
        /\ expires[key[q]] = ttl /\ expires[key[p]] = TickStep + ttl

\* C19: bounded staleness. A read leaves every expiry time and every
\* stored document as it was; an expiry time is set only by a store, to the
\* time of the store plus the TTL; and a read returns a document only
\* before that time.
ThmC19 ==
    /\ [](\A k \in Keys : data[k] # Absent => expires[k] <= clock + ttl)
    /\ [][\A p \in Callers :
            Moves(p, "hit", "done")
              => /\ expires' = expires /\ data' = data
                 /\ result'[p] \in Docs => clock < expires[key[p]]
          ]_vars
    /\ [][\A k \in Keys :
            (expires'[k] # expires[k] /\ data'[k] # Absent)
              => /\ expires'[k] = clock + ttl
                 /\ \E q \in Callers :
                        Moves(q, "store", "done") /\ key[q] = k
          ]_vars

\* the key of the hit was used after another key was stored one tick
\* after time 0, and still expires at time 0 plus the TTL
WitC19 ==
    \E p \in Callers, j \in Keys :
        /\ pc[p] = "done" /\ hit[p] /\ result[p] \in Docs
        /\ links = <<j, key[p]>>
        /\ expires[j] = TickStep + ttl /\ expires[key[p]] = ttl

\* C20: no store on failure. The steps of a call up to a failure of the
\* fallback loader (lookup, attempts, fallback load) leave the cache as it
\* is; a lookup that finds no live entry goes to the network fetcher; and
\* with no other caller about, the key of a failed call has no live entry.
ThmC20 ==
    /\ [](\A p \in Callers :
            (Alone(p) /\ pc[p] = "done" /\ result[p] \in FallbackErrors)
              => ~Live(key[p]))
    /\ [][\A p \in Callers :
            /\ (StepOf(p) /\ pc[p] \in {"lookup", "fetch", "fallback"})
                  => cacheVars' = cacheVars
            /\ (Moves(p, "fallback", "done"))
                  => (result'[p] \notin Docs /\ cacheVars' = cacheVars)
            /\ (pc[p] = "lookup" /\ pc'[p] # "lookup" /\ ~Live(key[p]))
                  => pc'[p] = "fetch"
          ]_vars

WitC20 ==
    \E p \in Callers :
        /\ Alone(p) /\ pc[p] = "done" /\ ~hit[p]
        /\ result[p] \in FallbackErrors
        /\ data[key[p]] = Absent /\ links # <<>>

\* ------------------------------------------- claims on the statistics
\* the items of the raw rates mapping of the fetched document
InRates == IF "rates" \in DOMAIN sdata THEN sdata.rates ELSE <<>>
\* _build_day_records has returned
Built == sumpc \in {"assemble", "returned"}
Abs(x) == IF x < 0 THEN 0 - x ELSE x
\* v is the quotient n / d rounded to an integer (d # 0)
IsRounded(v, n, d) == 2 * Abs(v * d - n) <= Abs(d)

\* C12: DayRecord sequence invariant. Whatever the order of the keys, the
\* records are one per date key, strictly ascending by date, with a null
\* percent change for the first record and only for it, a number otherwise.
ThmC12 ==
    Built =>
        /\ Len(records) = Len(InRates)
        /\ {records[i].date : i \in 1..Len(records)}
             = {InRates[i][1] : i \in 1..Len(InRates)}
        /\ \A i \in 1..Len(records), j \in 1..Len(records) :
              i < j => StrLess(records[i].date, records[j].date)
        /\ \A i \in 1..Len(records) :
              /\ (records[i].pct_change = <<>>) <=> (i = 1)
              /\ i > 1 => /\ Len(records[i].pct_change) = 1
                          /\ records[i].pct_change[1] \in Int

\* three date keys given in an order that is not ascending
WitC12 ==
    /\ sumpc = "returned" /\ Len(records) = 3
    /\ StrLess(InRates[2][1], InRates[1][1])
    /\ records[1].pct_change = <<>> /\ records[3].pct_change # <<>>

\* C13: division guard. The percent change of a record after the first is
\* taken against the rate of the record just before it: 0 when that rate is
\* 0, otherwise (current - previous) / previous x 100 rounded to 4
\* decimals.
ThmC13 ==
    Built =>
        \A i \in 2..Len(records) :
            LET c == records[i].rate
                p == records[i - 1].rate
                v == records[i].pct_change[1]
            IN  IF p = 0 THEN v = 0
                ELSE IsRounded(v, (c - p) * 100 * 10000, p)

\* rates 0.0 and 10.0 on two consecutive dates: 0.0 for the second
WitC13 ==
    /\ sumpc = "returned" /\ Len(records) >= 2
    /\ records[1].rate = 0 /\ records[2].rate = 1000
    /\ records[2].pct_change = <<0>>

\* C14: missing rate default. Every date key whose currency map has no
\* USD entry still gets a record, and its rate is 0.0.
ThmC14 ==
    Built =>
        \A i \in 1..Len(InRates) :
            "USD" \notin DOMAIN InRates[i][2]
              => \E j \in 1..Len(records) :
                    /\ records[j].date = InRates[i][1]
                    /\ records[j].rate = 0

WitC14 ==
    /\ sumpc = "returned" /\ Len(records) >= 2
    /\ \E i \in 1..Len(InRates) :
          /\ "USD" \notin DOMAIN InRates[i][2]
          /\ records[2].date = InRates[i][1]
          /\ records[2].rate = 0 /\ records[1].rate # 0

\* C15: totals. For a non-empty record sequence start_rate is the first
\* record's rate, end_rate the last record's, total_percent_change the
\* guarded, rounded percent change of end_rate against start_rate; for an
\* empty document there are no records and the four fields are 0.0.
ThmC15 ==
    Built =>
        IF InRates = <<>>
        THEN /\ records = <<>>
             /\ totals = [start_rate |-> 0, end_rate |-> 0,
                          total_pct_change |-> 0, mean_rate |-> 0]
        ELSE /\ records # <<>>
             /\ totals.start_rate = records[1].rate
             /\ totals.end_rate = records[Len(records)].rate
             /\ IF totals.start_rate = 0 THEN totals.total_pct_change = 0
                ELSE IsRounded(totals.total_pct_change,
                               (totals.end_rate - totals.start_rate)
                                 * 100 * 10000,
                               totals.start_rate)

\* the example of the design: 1.03 then 1.05 gives 1.9417 % and mean 1.04
WitC15 ==
    /\ sumpc = "returned" /\ Len(records) = 2
    /\ totals.start_rate = 103 /\ totals.end_rate = 105
    /\ totals.total_pct_change = 19417 /\ totals.mean_rate = 1040000

\* the records and the totals of a document, whatever the breakdown
RECURSIVE DocRecords(_, _, _)
DocRecords(dates, items, prev) ==
    IF dates = <<>> THEN <<>>
    ELSE LET m == dict_getitem(items, Head(dates))
             r == IF "USD" \in DOMAIN m THEN m["USD"] ELSE 0
         IN  <<[date |-> Head(dates), rate |-> r,
                pct_change |-> IF prev = <<>> THEN <<>>
                               ELSE <<safe_pct_change(r, prev[1])>>]>>
             \o DocRecords(Tail(dates), items, <<r>>)
DocTotals(items) ==
    build_totals(DocRecords(sorted(dict_keys(items)), items, <<>>))

\* C16: breakdown. The days field is the full record sequence when the
\* breakdown is "day" and null when it is "none"; the totals are present
\* and are those of the document in both modes; base is "EUR", target is
\* "USD"; start_date, end_date and breakdown are the arguments.
ThmC16 ==
    sumpc = "returned" =>
        /\ response.base = "EUR" /\ response.target = "USD"
        /\ response.start_date = args.start_date
        /\ response.end_date = args.end_date
        /\ response.breakdown = args.breakdown
        /\ args.breakdown = "day" => response.days = <<records>>
        /\ args.breakdown = "none" => response.days = <<>>
        /\ response.totals = DocTotals(InRates)
        /\ Len(records) = Len(InRates)

WitC16 ==
    /\ sumpc = "returned" /\ args.breakdown = "none"
    /\ response.days = <<>> /\ Len(records) = 2
    /\ response.totals.start_rate = 103
    /\ response.totals.end_rate = 105

====
